---- MODULE Spec2Model ----
(***************************************************************************)
(* Model of backend/main.py: the POST /pipelines/parse handler             *)
(* (parse_pipeline) and the cycle detector is_dag with its nested dfs.     *)
(* Every variable is a function over the requests being served; each       *)
(* request has its own activation of parse_pipeline and is_dag.            *)
(***************************************************************************)
EXTENDS FiniteSets, Integers, Sequences, TLC

VARIABLES
    body,       \* the JSON payload of each request
    pc,         \* position of each request's activation
    nodes,      \* parse_pipeline / is_dag local: the node list
    edges,      \* parse_pipeline / is_dag local: the edge list
    num_nodes,  \* parse_pipeline local
    num_edges,  \* parse_pipeline local
    graph,      \* is_dag local: adjacency (defaultdict(list))
    node_ids,   \* is_dag local: the working vertex set
    pending,    \* vertices the outer "for node_id in node_ids" has not yielded yet
    color,      \* is_dag local: the colouring map
    stack,      \* the nested dfs activations, outermost first
    ret,        \* value returned by the dfs call that returned last
    result,     \* value returned by is_dag
    response,   \* <<>> until parse_pipeline returns, then <<its dict>>
    dfs_calls   \* per vertex, how many times dfs was entered on it

vars == <<body, pc, nodes, edges, num_nodes, num_edges, graph, node_ids,
          pending, color, stack, ret, result, response, dfs_calls>>

-----------------------------------------------------------------------------
(* Bounds of the explored inputs. *)
MaxNodes == 1
MaxEdges == 2
SkipMaxNodes == 1
SkipMaxEdges == 2
PermMaxNodes == 2
PermMaxEdges == 2
ConcMaxEdges == 2
FairMaxNodes == 1
FairMaxEdges == 2

(* Identifier values are strings, as the HTTP interface describes them.    *)
(* None stands for Python's None: what edge.get(key) yields for an absent   *)
(* key and for a JSON null alike.  The empty string is the one falsy        *)
(* string.                                                                  *)
None == "<None>"
Ids == {"A", "B", "C"}
PairIds == {"A", "B"}
Falsy == {None, ""}

(* A dict of the nodes list: its key set and, when present, its "id".       *)
NoIdNode == [keys |-> {}, id |-> None]
NodeDict(v) == [keys |-> {"id"}, id |-> v]
EdgeDict(s, t) == [source |-> s, target |-> t]

SeqsUpTo(S, n) == UNION {[1..k -> S] : k \in 0..n}

NodeDicts(I) == {NoIdNode} \cup {NodeDict(v) : v \in I}
EdgeDicts(I) == {EdgeDict(s, t) : s \in I \cup Falsy, t \in I \cup Falsy}

WellTyped(ns, es) == [fields |-> {"nodes", "edges"}, nodes |-> ns, edges |-> es]
Malformed == {[fields |-> f, nodes |-> <<>>, edges |-> <<>>] :
                 f \in {{}, {"nodes"}, {"edges"}}}

ValidEdgeDicts(I) == {EdgeDict(s, t) : s \in I, t \in I}

Bodies(ND, ED, maxN, maxE) ==
    {WellTyped(ns, es) : ns \in SeqsUpTo(ND, maxN), es \in SeqsUpTo(ED, maxE)}
    \cup Malformed

-----------------------------------------------------------------------------
(* Pure helpers of is_dag. *)
WHITE == 0
GRAY == 1
BLACK == 2

(* PipelineData: both fields are required. *)
SchemaAccepts(b) == b.fields = {"nodes", "edges"}

(* Variant: "if source is not None and target is not None". *)
NotNone(v) == v /= None

(* Python truthiness of an endpoint value: "if source and target". *)
Truthy(v) == v /= None /\ v /= ""

EmptyGraph == [k \in {} |-> <<>>]

(* Variant: one module-level graph, created at import. *)
SharedGraph(c) == graph[1]

(* graph = defaultdict(list), created by each call. *)
FreshGraph(c) == EmptyGraph

(* graph[k] on a defaultdict: a missing key reads as the empty list. *)
Lookup(g, k) == IF k \in DOMAIN g THEN g[k] ELSE <<>>

(* ... and the read inserts the key. *)
Touch(g, k) == IF k \in DOMAIN g THEN g ELSE g @@ (k :> <<>>)

AppendTarget(g, s, t) == [Touch(g, s) EXCEPT ![s] = Append(@, t)]

(* The loop over edges: adjacency and vertex set after the whole list. *)
RECURSIVE BuildEdgesLoop(_, _, _)
BuildEdgesLoop(g, ids, es) ==
    IF es = <<>> THEN [graph |-> g, node_ids |-> ids]
    ELSE LET source == Head(es).source
             target == Head(es).target
         IN  IF Truthy(source) /\ Truthy(target)
             THEN BuildEdgesLoop(AppendTarget(g, source, target),
                                 ids \cup {source, target}, Tail(es))
             ELSE BuildEdgesLoop(g, ids, Tail(es))

(* The loop over nodes raises KeyError at the first dict without "id". *)
HasId(n) == "id" \in n.keys
AllHaveId(ns) == \A i \in 1..Len(ns) : HasId(ns[i])
FirstWithoutId(ns) == CHOOSE i \in 1..Len(ns) :
                         ~HasId(ns[i]) /\ \A j \in 1..(i-1) : HasId(ns[j])
IdsOfPrefix(ns, n) == {ns[i].id : i \in 1..n}

Top(s) == s[Len(s)]
Pop(s) == SubSeq(s, 1, Len(s) - 1)
Frame(v) == [node |-> v, i |-> 1]

Terminal == {"rejected", "error", "responded"}

-----------------------------------------------------------------------------
(* State after the requests arrived, before any handler ran. *)
InitCalls(C) ==
    /\ pc = [c \in C |-> "request"]
    /\ nodes = [c \in C |-> <<>>]
    /\ edges = [c \in C |-> <<>>]
    /\ num_nodes = [c \in C |-> 0]
    /\ num_edges = [c \in C |-> 0]
    /\ graph = [c \in C |-> EmptyGraph]
    /\ node_ids = [c \in C |-> {}]
    /\ pending = [c \in C |-> {}]
    /\ color = [c \in C |-> EmptyGraph]
    /\ stack = [c \in C |-> <<>>]
    /\ ret = [c \in C |-> FALSE]
    /\ result = [c \in C |-> FALSE]
    /\ response = [c \in C |-> <<>>]
    /\ dfs_calls = [c \in C |-> EmptyGraph]

Init ==
    /\ body \in [{1} -> Bodies(NodeDicts(Ids), EdgeDicts(Ids), MaxNodes, MaxEdges)]
    /\ InitCalls({1})

-----------------------------------------------------------------------------
(* Request validation against PipelineData fails: the handler never runs. *)
Reject(c) ==
    /\ pc[c] = "request"
    /\ ~SchemaAccepts(body[c])
    /\ pc' = [pc EXCEPT ![c] = "rejected"]
    /\ UNCHANGED <<body, nodes, edges, num_nodes, num_edges, graph, node_ids,
                   pending, color, stack, ret, result, response, dfs_calls>>

(* Variant: len(set(...)), duplicates counted once. *)
CountDistinct(list) == Cardinality({list[i] : i \in 1..Len(list)})

CountOf(list) == Len(list)

(* parse_pipeline up to the call of is_dag. *)
ParsePipeline(c) ==
    /\ pc[c] = "request"
    /\ SchemaAccepts(body[c])
    /\ nodes' = [nodes EXCEPT ![c] = body[c].nodes]
    /\ edges' = [edges EXCEPT ![c] = body[c].edges]
    /\ num_nodes' = [num_nodes EXCEPT ![c] = CountOf(body[c].nodes)]
    /\ num_edges' = [num_edges EXCEPT ![c] = CountOf(body[c].edges)]
    /\ pc' = [pc EXCEPT ![c] = "build_nodes"]
    /\ UNCHANGED <<body, graph, node_ids, pending, color, stack, ret, result,
                   response, dfs_calls>>

(* is_dag: graph and node_ids created, the loop over nodes runs through. *)
BuildNodes(c) ==
    /\ pc[c] = "build_nodes"
    /\ AllHaveId(nodes[c])
    /\ graph' = [graph EXCEPT ![c] = FreshGraph(c)]
    /\ node_ids' = [node_ids EXCEPT ![c] = IdsOfPrefix(nodes[c], Len(nodes[c]))]
    /\ pc' = [pc EXCEPT ![c] = "build_edges"]
    /\ UNCHANGED <<body, nodes, edges, num_nodes, num_edges, pending, color,
                   stack, ret, result, response, dfs_calls>>

(* is_dag: node["id"] raises KeyError; nothing catches it. *)
BuildNodesKeyError(c) ==
    /\ pc[c] = "build_nodes"
    /\ ~AllHaveId(nodes[c])
    /\ graph' = [graph EXCEPT ![c] = FreshGraph(c)]
    /\ node_ids' = [node_ids EXCEPT ![c] =
                       IdsOfPrefix(nodes[c], FirstWithoutId(nodes[c]) - 1)]
    /\ pc' = [pc EXCEPT ![c] = "error"]
    /\ UNCHANGED <<body, nodes, edges, num_nodes, num_edges, pending, color,
                   stack, ret, result, response, dfs_calls>>

(* is_dag: the loop over edges. *)
BuildEdges(c) ==
    /\ pc[c] = "build_edges"
    /\ LET built == BuildEdgesLoop(graph[c], node_ids[c], edges[c])
       IN  /\ graph' = [graph EXCEPT ![c] = built.graph]
           /\ node_ids' = [node_ids EXCEPT ![c] = built.node_ids]
    /\ pc' = [pc EXCEPT ![c] = "init_color"]
    /\ UNCHANGED <<body, nodes, edges, num_nodes, num_edges, pending, color,
                   stack, ret, result, response, dfs_calls>>

(* is_dag: every vertex WHITE; the outer loop's iterator is created. *)
InitColor(c) ==
    /\ pc[c] = "init_color"
    /\ color' = [color EXCEPT ![c] = [v \in node_ids[c] |-> WHITE]]
    /\ dfs_calls' = [dfs_calls EXCEPT ![c] = [v \in node_ids[c] |-> 0]]
    /\ pending' = [pending EXCEPT ![c] = node_ids[c]]
    /\ pc' = [pc EXCEPT ![c] = "outer"]
    /\ UNCHANGED <<body, nodes, edges, num_nodes, num_edges, graph, node_ids,
                   stack, ret, result, response>>

(* Entry of dfs(v): color[node] = GRAY, and the neighbour loop starts,      *)
(* reading graph[node].                                                     *)
Enter(c, v) ==
    /\ color' = [color EXCEPT ![c][v] = GRAY]
    /\ graph' = [graph EXCEPT ![c] = Touch(@, v)]
    /\ stack' = [stack EXCEPT ![c] = Append(@, Frame(v))]
    /\ dfs_calls' = [dfs_calls EXCEPT ![c][v] = @ + 1]
    /\ pc' = [pc EXCEPT ![c] = "loop"]

(* Outer loop: the set iterator yields some vertex not yielded before (a   *)
(* set's iteration order is arbitrary); it is not WHITE and is passed over. *)
OuterSkip(c) ==
    /\ pc[c] = "outer"
    /\ \E v \in pending[c] :
          /\ color[c][v] /= WHITE
          /\ pending' = [pending EXCEPT ![c] = @ \ {v}]
    /\ UNCHANGED <<body, pc, nodes, edges, num_nodes, num_edges, graph,
                   node_ids, color, stack, ret, result, response, dfs_calls>>

(* Outer loop: the yielded vertex is WHITE and dfs is called on it. *)
OuterCall(c) ==
    /\ pc[c] = "outer"
    /\ \E v \in pending[c] :
          /\ color[c][v] = WHITE
          /\ pending' = [pending EXCEPT ![c] = @ \ {v}]
          /\ Enter(c, v)
    /\ UNCHANGED <<body, nodes, edges, num_nodes, num_edges, node_ids, ret,
                   result, response>>

(* Variant: "return True" indented into the loop body. *)
OuterDoneEarly(c) ==
    /\ pc[c] = "outer"
    /\ pending[c] /= node_ids[c] \/ node_ids[c] = {}
    /\ result' = [result EXCEPT ![c] = TRUE]
    /\ pc' = [pc EXCEPT ![c] = "done"]
    /\ UNCHANGED <<body, nodes, edges, num_nodes, num_edges, graph, node_ids,
                   pending, color, stack, ret, response, dfs_calls>>

(* Outer loop exhausted: return True. *)
OuterDone(c) ==
    /\ pc[c] = "outer"
    /\ pending[c] = {}
    /\ result' = [result EXCEPT ![c] = TRUE]
    /\ pc' = [pc EXCEPT ![c] = "done"]
    /\ UNCHANGED <<body, nodes, edges, num_nodes, num_edges, graph, node_ids,
                   pending, color, stack, ret, response, dfs_calls>>

(* Variant: the function's tail indented into the neighbour loop, so the   *)
(* loop body runs once at most.                                             *)
HasFirstNeighborOnly(c) ==
    /\ Top(stack[c]).i <= 1
    /\ Top(stack[c]).i <= Len(Lookup(graph[c], Top(stack[c]).node))

(* The neighbour the innermost dfs activation examines next. *)
HasNeighbor(c) == Top(stack[c]).i <= Len(Lookup(graph[c], Top(stack[c]).node))
Neighbor(c) == Lookup(graph[c], Top(stack[c]).node)[Top(stack[c]).i]

Advance(s) == [s EXCEPT ![Len(s)].i = @ + 1]

(* dfs: the neighbour is untracked (continue) or BLACK (falls through). *)
ExamineContinue(c) ==
    /\ pc[c] = "loop"
    /\ HasNeighbor(c)
    /\ \/ Neighbor(c) \notin DOMAIN color[c]
       \/ color[c][Neighbor(c)] = BLACK
    /\ stack' = [stack EXCEPT ![c] = Advance(@)]
    /\ UNCHANGED <<body, pc, nodes, edges, num_nodes, num_edges, graph,
                   node_ids, pending, color, ret, result, response, dfs_calls>>

(* Variant: a visited set in place of three colours: any neighbour seen    *)
(* before counts as a back edge.                                            *)
ExamineVisited(c) ==
    /\ pc[c] = "loop"
    /\ HasNeighbor(c)
    /\ Neighbor(c) \in DOMAIN color[c]
    /\ color[c][Neighbor(c)] /= WHITE
    /\ stack' = [stack EXCEPT ![c] = Pop(@)]
    /\ ret' = [ret EXCEPT ![c] = TRUE]
    /\ pc' = [pc EXCEPT ![c] = "returned"]
    /\ UNCHANGED <<body, nodes, edges, num_nodes, num_edges, graph, node_ids,
                   pending, color, result, response, dfs_calls>>

(* dfs: the neighbour is GRAY: return True. *)
ExamineGray(c) ==
    /\ pc[c] = "loop"
    /\ HasNeighbor(c)
    /\ Neighbor(c) \in DOMAIN color[c]
    /\ color[c][Neighbor(c)] = GRAY
    /\ stack' = [stack EXCEPT ![c] = Pop(@)]
    /\ ret' = [ret EXCEPT ![c] = TRUE]
    /\ pc' = [pc EXCEPT ![c] = "returned"]
    /\ UNCHANGED <<body, nodes, edges, num_nodes, num_edges, graph, node_ids,
                   pending, color, result, response, dfs_calls>>

(* Variant: "if color[neighbor] != GRAY: dfs(neighbor)". *)
ExamineUnfinished(c) ==
    /\ pc[c] = "loop"
    /\ HasNeighbor(c)
    /\ Neighbor(c) \in DOMAIN color[c]
    /\ color[c][Neighbor(c)] /= GRAY
    /\ Enter(c, Neighbor(c))
    /\ UNCHANGED <<body, nodes, edges, num_nodes, num_edges, node_ids,
                   pending, ret, result, response>>

(* dfs: the neighbour is WHITE: dfs(neighbor). *)
ExamineWhite(c) ==
    /\ pc[c] = "loop"
    /\ HasNeighbor(c)
    /\ Neighbor(c) \in DOMAIN color[c]
    /\ color[c][Neighbor(c)] = WHITE
    /\ Enter(c, Neighbor(c))
    /\ UNCHANGED <<body, nodes, edges, num_nodes, num_edges, node_ids,
                   pending, ret, result, response>>

(* Variant: the vertex is un-marked when its walk backtracks. *)
FinishUnmark(c) ==
    /\ pc[c] = "loop"
    /\ ~HasNeighbor(c)
    /\ color' = [color EXCEPT ![c][Top(stack[c]).node] = WHITE]
    /\ stack' = [stack EXCEPT ![c] = Pop(@)]
    /\ ret' = [ret EXCEPT ![c] = FALSE]
    /\ pc' = [pc EXCEPT ![c] = "returned"]
    /\ UNCHANGED <<body, nodes, edges, num_nodes, num_edges, graph, node_ids,
                   pending, result, response, dfs_calls>>

(* dfs: neighbour loop exhausted: color[node] = BLACK, return False. *)
Finish(c) ==
    /\ pc[c] = "loop"
    /\ ~HasNeighbor(c)
    /\ color' = [color EXCEPT ![c][Top(stack[c]).node] = BLACK]
    /\ stack' = [stack EXCEPT ![c] = Pop(@)]
    /\ ret' = [ret EXCEPT ![c] = FALSE]
    /\ pc' = [pc EXCEPT ![c] = "returned"]
    /\ UNCHANGED <<body, nodes, edges, num_nodes, num_edges, graph, node_ids,
                   pending, result, response, dfs_calls>>

(* Variant: "dfs(neighbor)" with its result dropped. *)
PropagateDropped(c) ==
    /\ pc[c] = "returned"
    /\ stack[c] /= <<>>
    /\ ret[c] = TRUE
    /\ stack' = [stack EXCEPT ![c] = Advance(@)]
    /\ pc' = [pc EXCEPT ![c] = "loop"]
    /\ UNCHANGED <<body, nodes, edges, num_nodes, num_edges, graph, node_ids,
                   pending, color, ret, result, response, dfs_calls>>

(* dfs: "if dfs(neighbor): return True". *)
PropagateCycle(c) ==
    /\ pc[c] = "returned"
    /\ stack[c] /= <<>>
    /\ ret[c] = TRUE
    /\ stack' = [stack EXCEPT ![c] = Pop(@)]
    /\ UNCHANGED <<body, pc, nodes, edges, num_nodes, num_edges, graph,
                   node_ids, pending, color, ret, result, response, dfs_calls>>

(* dfs: the recursive call returned False: on to the next neighbour. *)
ResumeCaller(c) ==
    /\ pc[c] = "returned"
    /\ stack[c] /= <<>>
    /\ ret[c] = FALSE
    /\ stack' = [stack EXCEPT ![c] = Advance(@)]
    /\ pc' = [pc EXCEPT ![c] = "loop"]
    /\ UNCHANGED <<body, nodes, edges, num_nodes, num_edges, graph, node_ids,
                   pending, color, ret, result, response, dfs_calls>>

(* Outer loop: "if dfs(node_id): return False". *)
OuterCycle(c) ==
    /\ pc[c] = "returned"
    /\ stack[c] = <<>>
    /\ ret[c] = TRUE
    /\ result' = [result EXCEPT ![c] = FALSE]
    /\ pc' = [pc EXCEPT ![c] = "done"]
    /\ UNCHANGED <<body, nodes, edges, num_nodes, num_edges, graph, node_ids,
                   pending, color, stack, ret, response, dfs_calls>>

(* Outer loop: the walk found no cycle: next vertex. *)
OuterResume(c) ==
    /\ pc[c] = "returned"
    /\ stack[c] = <<>>
    /\ ret[c] = FALSE
    /\ pc' = [pc EXCEPT ![c] = "outer"]
    /\ UNCHANGED <<body, nodes, edges, num_nodes, num_edges, graph, node_ids,
                   pending, color, stack, ret, result, response, dfs_calls>>

(* parse_pipeline: the returned dict. *)
Respond(c) ==
    /\ pc[c] = "done"
    /\ response' = [response EXCEPT ![c] =
                       <<[num_nodes |-> num_nodes[c],
                          num_edges |-> num_edges[c],
                          is_dag |-> result[c]]>>]
    /\ pc' = [pc EXCEPT ![c] = "responded"]
    /\ UNCHANGED <<body, nodes, edges, num_nodes, num_edges, graph, node_ids,
                   pending, color, stack, ret, result, dfs_calls>>

Step(c) ==
    \/ Reject(c)
    \/ ParsePipeline(c)
    \/ BuildNodes(c)
    \/ BuildNodesKeyError(c)
    \/ BuildEdges(c)
    \/ InitColor(c)
    \/ OuterSkip(c)
    \/ OuterCall(c)
    \/ OuterDone(c)
    \/ ExamineContinue(c)
    \/ ExamineGray(c)
    \/ ExamineWhite(c)
    \/ Finish(c)
    \/ PropagateCycle(c)
    \/ ResumeCaller(c)
    \/ OuterCycle(c)
    \/ OuterResume(c)
    \/ Respond(c)

(* One request. *)
Next == Step(1)

Spec == Init /\ [][Next]_vars

(* The handler runs to completion once started: no step waits on anything. *)
FairEdgeDicts ==
    ValidEdgeDicts(Ids) \cup {EdgeDict("A", None), EdgeDict("", "B")}

InitFair ==
    /\ body \in [{1} -> Bodies(NodeDicts(Ids), FairEdgeDicts,
                              FairMaxNodes, FairMaxEdges)]
    /\ InitCalls({1})

FairSpec == InitFair /\ [][Next]_vars /\ WF_vars(Next)

-----------------------------------------------------------------------------
(* Two requests served one after the other. *)
Calls == {1, 2}

Turn(c) == \A d \in 1..(c-1) : pc[d] \in Terminal

NextSeq ==
    \E c \in Calls :
        \/ Turn(c) /\ Reject(c)
        \/ Turn(c) /\ ParsePipeline(c)
        \/ Turn(c) /\ BuildNodes(c)
        \/ Turn(c) /\ BuildNodesKeyError(c)
        \/ Turn(c) /\ BuildEdges(c)
        \/ Turn(c) /\ InitColor(c)
        \/ Turn(c) /\ OuterSkip(c)
        \/ Turn(c) /\ OuterCall(c)
        \/ Turn(c) /\ OuterDone(c)
        \/ Turn(c) /\ ExamineContinue(c)
        \/ Turn(c) /\ ExamineGray(c)
        \/ Turn(c) /\ ExamineWhite(c)
        \/ Turn(c) /\ Finish(c)
        \/ Turn(c) /\ PropagateCycle(c)
        \/ Turn(c) /\ ResumeCaller(c)
        \/ Turn(c) /\ OuterCycle(c)
        \/ Turn(c) /\ OuterResume(c)
        \/ Turn(c) /\ Respond(c)

(* Two requests served concurrently, their steps interleaved arbitrarily. *)
NextConc == \E c \in Calls : Step(c)

TwoBodies(b1, b2) == body = (1 :> b1) @@ (2 :> b2)

Bijections(n) == {p \in [1..n -> 1..n] : \A i, j \in 1..n : p[i] = p[j] => i = j}
Reorderings(s) == {[i \in 1..Len(s) |-> s[p[i]]] : p \in Bijections(Len(s))}

PermutedBodies(b) ==
    {[fields |-> b.fields, nodes |-> ns, edges |-> es] :
        ns \in Reorderings(b.nodes), es \in Reorderings(b.edges)}

PermEdgeDicts ==
    ValidEdgeDicts(PairIds) \cup {EdgeDict("A", None), EdgeDict("", "B")}

(* The second request carries the first one's lists, permuted. *)
InitPerm ==
    /\ \E b1 \in Bodies(NodeDicts(PairIds), PermEdgeDicts,
                        PermMaxNodes, PermMaxEdges) :
          \E b2 \in PermutedBodies(b1) : TwoBodies(b1, b2)
    /\ InitCalls(Calls)

SpecPerm == InitPerm /\ [][NextSeq]_vars

(* "Missing or empty" endpoint, as the edge contract words it. *)
Present(v) == v \notin {None, ""}
BothPresent(e) == Present(e.source) /\ Present(e.target)

RECURSIVE WithoutSkipped(_)
WithoutSkipped(es) ==
    IF es = <<>> THEN <<>>
    ELSE IF BothPresent(Head(es)) THEN <<Head(es)>> \o WithoutSkipped(Tail(es))
         ELSE WithoutSkipped(Tail(es))

(* The second request carries the first one's edge list without the edges  *)
(* that miss an endpoint.                                                   *)
InitSkip ==
    /\ \E b1 \in Bodies(NodeDicts(PairIds), EdgeDicts(PairIds),
                        SkipMaxNodes, SkipMaxEdges) :
          TwoBodies(b1, [b1 EXCEPT !.edges = WithoutSkipped(@)])
    /\ InitCalls(Calls)

SpecSkip == InitSkip /\ [][NextSeq]_vars

ConcNodeLists == {<<>>, <<NoIdNode>>}
ConcEdgeDicts ==
    {EdgeDict("A", "B"), EdgeDict("B", "A"), EdgeDict("A", "A"), EdgeDict(None, "B")}

ConcBodies ==
    {WellTyped(ns, es) : ns \in ConcNodeLists,
                         es \in SeqsUpTo(ConcEdgeDicts, ConcMaxEdges)}
    \cup Malformed

InitConc ==
    /\ body \in [Calls -> ConcBodies]
    /\ InitCalls(Calls)

SpecConc == InitConc /\ [][NextConc]_vars

-----------------------------------------------------------------------------
(* The graph a payload describes, stated without reference to the code:    *)
(* vertices are the declared ids and the endpoints of the edges that have   *)
(* both endpoints; adjacency comes from those edges alone.                  *)
DeclaredIds(b) == {b.nodes[i].id : i \in 1..Len(b.nodes)}
KeptEdges(b) == {i \in 1..Len(b.edges) : BothPresent(b.edges[i])}
Arcs(b) == {<<b.edges[i].source, b.edges[i].target>> : i \in KeptEdges(b)}
Vertices(b) == DeclaredIds(b) \cup {a[1] : a \in Arcs(b)} \cup {a[2] : a \in Arcs(b)}

Compose(R) == {<<p[1][1], p[2][2]>> : p \in {q \in R \X R : q[1][2] = q[2][1]}}
RECURSIVE Reach(_)
Reach(R) == IF Compose(R) \subseteq R THEN R ELSE Reach(R \cup Compose(R))
HasDirectedCycle(b) == \E a \in Reach(Arcs(b)) : a[1] = a[2]

(* Targets of the kept edges leaving k, in list order, with multiplicity. *)
RECURSIVE TargetsOf(_, _)
TargetsOf(es, k) ==
    IF es = <<>> THEN <<>>
    ELSE IF BothPresent(Head(es)) /\ Head(es).source = k
         THEN <<Head(es).target>> \o TargetsOf(Tail(es), k)
         ELSE TargetsOf(Tail(es), k)

Returned(c) == pc[c] \in {"done", "responded"}
Built(c) == pc[c] \in {"init_color", "outer", "loop", "returned", "done", "responded"}
Coloured(c) == pc[c] \in {"outer", "loop", "returned", "done", "responded"}
SeenBy(c) == Vertices(body[c]) \cup DOMAIN graph[c] \cup node_ids[c]

-----------------------------------------------------------------------------
(* C1: whenever is_dag returns, it returns true exactly when the graph of  *)
(* the declared ids and the both-endpoint edges has no directed cycle.     *)
C1_IsDagIffAcyclic ==
    \A c \in DOMAIN pc :
        Returned(c) => (result[c] <=> ~HasDirectedCycle(body[c]))

(* An empty node list, one component finished without a cycle, another     *)
(* component cyclic: is_dag returned false.                                 *)
C1_Witness ==
    /\ pc[1] = "done"
    /\ ~result[1]
    /\ body[1].nodes = <<>>
    /\ \E v \in node_ids[1] : color[1][v] = BLACK

(* C2: an edge missing an endpoint adds no vertex and no adjacency, every  *)
(* other edge adds both endpoints and its target to its source's list, and *)
(* is_dag returns the same on the edge list with the skipped edges removed. *)
C2_SkippedEdgesIgnored ==
    /\ \A c \in DOMAIN pc :
          Built(c) =>
             /\ node_ids[c] = Vertices(body[c])
             /\ \A k \in SeenBy(c) :
                   Lookup(graph[c], k) = TargetsOf(body[c].edges, k)
    /\ (Returned(1) /\ Returned(2)) => result[1] = result[2]
    /\ (pc[1] \in Terminal /\ pc[2] \in Terminal) => (Returned(1) <=> Returned(2))

(* Both runs returned; the first list held a skipped edge next to a kept one. *)
C2_Witness ==
    /\ Returned(1) /\ Returned(2)
    /\ body[2].edges /= <<>>
    /\ Len(body[1].edges) > Len(body[2].edges)

(* C3: no payload the schema accepts reaches is_dag with a node lacking an *)
(* id, and is_dag never ends in an error for an accepted payload.           *)
C3_MalformedNeverReachDetector ==
    \A c \in DOMAIN pc :
        /\ pc[c] = "build_nodes" => AllHaveId(nodes[c])
        /\ SchemaAccepts(body[c]) => pc[c] /= "error"

(* C4: the response carries the raw lengths of the submitted lists, and    *)
(* is_dag for the full induced graph.                                       *)
C4_RawCounts ==
    \A c \in DOMAIN pc :
        response[c] /= <<>> =>
            /\ response[c][1].num_nodes = Len(body[c].nodes)
            /\ response[c][1].num_edges = Len(body[c].edges)
            /\ response[c][1].is_dag <=> ~HasDirectedCycle(body[c])

(* A response counting a skipped edge and a duplicate, for a graph with    *)
(* more vertices than declared nodes.                                       *)
C4_Witness ==
    /\ response[1] /= <<>>
    /\ response[1][1].num_edges = 2
    /\ \/ ~BothPresent(body[1].edges[1])
       \/ body[1].edges[1] = body[1].edges[2]
    /\ Cardinality(node_ids[1]) > response[1][1].num_nodes

(* C5: is_dag on a permutation of the node list and of the edge list, with *)
(* any iteration order of the vertex set, returns the same boolean.        *)
C5_OrderIndependent ==
    /\ (Returned(1) /\ Returned(2)) => result[1] = result[2]
    /\ (pc[1] \in Terminal /\ pc[2] \in Terminal) => (Returned(1) <=> Returned(2))

(* Both runs returned on lists in different orders, a vertex having two    *)
(* neighbours.                                                              *)
C5_Witness ==
    /\ Returned(1) /\ Returned(2)
    /\ body[1].nodes /= body[2].nodes
    /\ body[1].edges /= body[2].edges
    /\ \E k \in DOMAIN graph[1] :
          Len(graph[1][k]) = 2 /\ graph[1][k][1] /= graph[1][k][2]

(* C6: under any interleaving of two calls, each call's vertex set,        *)
(* adjacency and colouring map come from its own payload only, and each    *)
(* call returns what the graph of its own payload determines, so equal     *)
(* payloads get equal results.                                              *)
C6_CallsIndependent ==
    /\ \A c \in Calls :
          /\ Built(c) =>
                /\ node_ids[c] = Vertices(body[c])
                /\ \A k \in SeenBy(c) :
                      Lookup(graph[c], k) = TargetsOf(body[c].edges, k)
          /\ Coloured(c) => DOMAIN color[c] = Vertices(body[c])
          /\ Returned(c) => (result[c] <=> ~HasDirectedCycle(body[c]))
    /\ (Returned(1) /\ Returned(2) /\ body[1] = body[2]) => result[1] = result[2]

(* Both calls are inside a dfs walk at once, on different graphs. *)
C6_Witness ==
    /\ pc[1] = "loop" /\ pc[2] = "loop"
    /\ stack[1] /= <<>> /\ stack[2] /= <<>>
    /\ HasDirectedCycle(body[1]) /\ ~HasDirectedCycle(body[2])

(* C7: during a run every vertex of the working set has one of the three   *)
(* colours, and a colour only changes WHITE -> GRAY or GRAY -> BLACK.      *)
ColoursTotal ==
    \A c \in DOMAIN pc :
        Coloured(c) =>
            /\ DOMAIN color[c] = Vertices(body[c])
            /\ \A v \in DOMAIN color[c] : color[c][v] \in {WHITE, GRAY, BLACK}

ColourStep ==
    \A c \in DOMAIN pc :
        \A v \in DOMAIN color[c] :
            /\ v \in DOMAIN color'[c]
            /\ \/ color'[c][v] = color[c][v]
               \/ color[c][v] = WHITE /\ color'[c][v] = GRAY
               \/ color[c][v] = GRAY /\ color'[c][v] = BLACK

C7_ColourDiscipline == [](ColoursTotal) /\ [][ColourStep]_vars

(* A moment of a run with a WHITE, a GRAY and a BLACK vertex. *)
C7_Witness ==
    /\ pc[1] = "loop"
    /\ \E u, v, w \in DOMAIN color[1] :
          color[1][u] = WHITE /\ color[1][v] = GRAY /\ color[1][w] = BLACK

(* C8: once a dfs call has returned "cycle found", no colour changes, no   *)
(* neighbour is examined, no dfs is entered, the outer loop yields nothing *)
(* more, the pending dfs calls return one by one, and is_dag returns false. *)
CycleFound(c) == pc[c] = "returned" /\ ret[c]

AbortStep ==
    \A c \in DOMAIN pc :
        CycleFound(c) =>
            /\ color'[c] = color[c]
            /\ dfs_calls'[c] = dfs_calls[c]
            /\ pending'[c] = pending[c]
            /\ ret'[c]
            /\ \/ UNCHANGED <<pc, stack>>
               \/ /\ stack[c] /= <<>>
                  /\ pc'[c] = "returned"
                  /\ stack'[c] = Pop(stack[c])
               \/ /\ stack[c] = <<>>
                  /\ pc'[c] = "done"
                  /\ stack'[c] = <<>>
                  /\ ~result'[c]

AbortedResult ==
    \A c \in DOMAIN pc :
        /\ (Returned(c) /\ ret[c]) => ~result[c]
        /\ (response[c] /= <<>> /\ ret[c]) => ~response[c][1].is_dag

C8_AbortOnBackEdge == [](AbortedResult) /\ [][AbortStep]_vars

(* A cycle was just found two calls deep while a vertex is still WHITE. *)
C8_Witness ==
    /\ CycleFound(1)
    /\ stack[1] /= <<>>
    /\ \E v \in pending[1] : color[1][v] = WHITE

(* C9: when is_dag returns true every vertex of the graph was entered and  *)
(* is BLACK, and at every moment every neighbour of a BLACK vertex is      *)
(* BLACK.                                                                   *)
C9_AllFinishedOnTrue ==
    \A c \in DOMAIN pc :
        /\ (Returned(c) /\ result[c]) =>
              \A v \in Vertices(body[c]) :
                  /\ v \in DOMAIN color[c]
                  /\ color[c][v] = BLACK
                  /\ dfs_calls[c][v] = 1
        /\ \A v \in DOMAIN color[c] :
              color[c][v] = BLACK =>
                 \A i \in 1..Len(Lookup(graph[c], v)) :
                     /\ Lookup(graph[c], v)[i] \in DOMAIN color[c]
                     /\ color[c][Lookup(graph[c], v)[i]] = BLACK

(* is_dag returned true on three vertices in two components, one of them   *)
(* declared only, the others edge endpoints only.                           *)
C9_Witness ==
    /\ pc[1] = "done"
    /\ result[1]
    /\ Cardinality(node_ids[1]) = 3
    /\ Cardinality(DeclaredIds(body[1])) = 1
    /\ Cardinality(Arcs(body[1])) = 1

(* C10: a call whose nodes all carry an id returns; dfs is entered at most *)
(* once per vertex and the nesting of dfs calls never exceeds the number   *)
(* of vertices.                                                             *)
DepthBounded ==
    \A c \in DOMAIN pc :
        /\ Len(stack[c]) <= Cardinality(node_ids[c])
        /\ \A v \in DOMAIN dfs_calls[c] : dfs_calls[c][v] <= 1

====
